---- MODULE Spec2Model ----
(***************************************************************************)
(* A model of region_plot/cli.py (pgxcentre/post-gwas).                    *)
(*                                                                         *)
(* Spec        : main() -- get_best_hits followed by the per-locus loop    *)
(*               (compute_ld, plot_region).                                *)
(* LayoutSpec  : the annotation layout loop of plot_region, on any region  *)
(*               and any annotation table.                                 *)
(* LdSpec      : compute_ld on any result of the LD engine, followed by    *)
(*               the merge of the LD values into the region's data that    *)
(*               plot_region starts with.                                  *)
(*                                                                         *)
(* Units.  Positions are integers (base pairs).  region_padding is a float *)
(* option in the source (type=float); it is kept here in HALF base pairs   *)
(* so that the truncation done by int() is visible: a padding of 1 half    *)
(* is 0.5 bp, 2 halves is 1 bp.  p-values are modelled by their rank       *)
(* (1 = smallest); only comparisons are made on them.                      *)
(*                                                                         *)
(* Layout.  plot_region divides positions by 1e6 and uses a gap of 3e-3    *)
(* Mb; the model keeps base pairs, so the gap is 3000.  Annotation         *)
(* coordinates lie on a grid of PosStep base pairs that never puts a start *)
(* exactly one gap after an end, where the outcome of the floating point   *)
(* comparison `last_end[j] < ann_start` would depend on rounding.  Device  *)
(* units are such that one base pair is one unit wide; the text backend    *)
(* returns boxes of the same width label_width for every label, centred    *)
(* (ha="center") on the middle of the clipped interval.  Label centres are *)
(* kept doubled (start + end) to stay in the integers.                     *)
(*                                                                         *)
(* LD.  utils.compute_ld is outside this file: its result is taken to be   *)
(* a series of r2 values indexed by the marker ids of the region, in the   *)
(* order the engine returned them, a marker possibly more than once and a  *)
(* value possibly null.  r2 values are kept as integers 0..MaxR2.          *)
(***************************************************************************)
EXTENDS Integers, Sequences, FiniteSets

\* ---------------------------------------------------------------- bounds
MaxRecords == 2     \* rows of the association file
NumChrom   == 2     \* chromosomes 1..NumChrom
MaxPos     == 1     \* positions 0..MaxPos
MaxP       == 2     \* p-value ranks 1..MaxP
MaxPad     == 2     \* region_padding in half base pairs, 0..MaxPad
MaxFeatures == 3    \* rows of the annotation table
PosStep    == 2000  \* grid of the annotation coordinates (base pairs)
MaxStart   == 3     \* annotation starts 0..MaxStart grid steps
MaxLabelW  == 2     \* label widths 0..MaxLabelW grid steps
MaxMargin  == 1     \* the region is cut 0..MaxMargin steps inside the grid
MaxDepth   == 4     \* rows 0, -1, ..., -MaxDepth can be searched
NumMarkers == 2     \* markers of the region, 1..NumMarkers
MaxEntries == 3     \* entries of the series the LD engine returns
MaxR2      == 1     \* r2 values 0..MaxR2

\* last_end[j] = ann_end + 3e-3 (Mb)
Gap == 3000

\* if args.region_padding >= 2500000: padding too large
PaddingLimit == 2500000

\* the lengths of the annotations: a point feature, a gene shorter than the
\* gap and a gene long enough for its label to sit far from its start
LongLen == 7 * PosStep
Lengths == {0, PosStep, LongLen}

VARIABLES
    assoc,           \* the association DataFrame: a sequence of rows
    region_padding,  \* args.region_padding, in half base pairs
    plot_p_lower,    \* args.plot_p_lower (a p-value rank)
    whole_dataset,   \* args.whole_dataset
    pc,              \* position of main()
    best_hits,       \* get_best_hits: the four parallel lists
    chroms,
    starts,
    ends,
    sub_data,        \* get_best_hits: the candidate pool (row indexes)
    iters,           \* iterations of the while loop of get_best_hits
    picks,           \* the pool as it was when each locus was picked
    k,               \* main: index of the locus the for loop is at
    ld_done,         \* main: loci whose LD table was computed and saved
    ld_failed,       \* main: loci whose LD resolution raised
    plotted,         \* main: loci whose region was plotted
    annotations,     \* plot_region: the annotation table (start, end)
    region_start,    \* plot_region: its parameters start and end
    region_end,
    label_width,     \* width of the box the renderer gives every label
    lpc,             \* position of the layout loop
    i,               \* the row of `annotations` being placed (1-based)
    j,               \* the candidate row of the track
    ann_start,       \* clipped start and end of the current annotation
    ann_end,
    last_end,        \* row -> end of the last line drawn there, plus Gap
    last_t_obj,      \* row -> doubled centre of the last label, or NoText
    placed,          \* what was drawn: clipped start, end and row
    ld_result,       \* compute_ld: the series utils.compute_ld returned
    ld_values,       \* compute_ld: the series it returns
    warnings,        \* compute_ld: the warnings logged, in order
    r2,              \* plot_region: the r2 column of data after the merge
    ldpc             \* position in compute_ld / the head of plot_region

layoutVars == <<annotations, region_start, region_end, label_width, lpc, i, j,
                ann_start, ann_end, last_end, last_t_obj, placed>>

pipeVars == <<assoc, region_padding, plot_p_lower, whole_dataset, pc,
              best_hits, chroms, starts, ends, sub_data, iters, picks, k,
              ld_done, ld_failed, plotted>>

ldVars == <<ld_result, ld_values, warnings, r2, ldpc>>

vars == <<pipeVars, layoutVars, ldVars>>

hitVars == <<best_hits, chroms, starts, ends, sub_data, iters, picks>>
argVars == <<assoc, region_padding, plot_p_lower, whole_dataset>>
mainVars == <<k, ld_done, ld_failed, plotted>>

\* ------------------------------------------------------------- data model
Record == [chr : 1..NumChrom, pos : 0..MaxPos, p : 1..MaxP]

SeqsUpTo(S, n) == UNION {[1..m -> S] : m \in 0..n}

Min(S) == CHOOSE x \in S : \A y \in S : x <= y
Max(S) == CHOOSE x \in S : \A y \in S : x >= y

\* int(x) of a value given in halves: truncation toward zero.
IntOf(h) == IF h >= 0 THEN h \div 2 ELSE -((-h) \div 2)

\* (mutation of IdxMin: the first row of the frame, whatever its p-value)
IdxMinFirstRow(rows) == Min(rows)

\* Series.idxmin(): the label of the first row holding the minimum.
IdxMin(rows) ==
    Min({row \in rows : \A row2 \in rows : assoc[row].p <= assoc[row2].p})

\* start = int(pos - padding) ; end = int(pos + padding)
WindowStart(pos) == IntOf(2 * pos - region_padding)
WindowEnd(pos)   == IntOf(2 * pos + region_padding)

\* start = start if start > 0 else 0
Clamp(s) == IF s > 0 THEN s ELSE 0

\* (mutation of Exclusion: the window bounds themselves are not excluded)
ExclusionOpen(rows, c, s, e) ==
    {row \in rows : assoc[row].chr = c /\ assoc[row].pos > s /\ assoc[row].pos < e}

\* (mutation of Exclusion: the chromosome is not compared)
ExclusionAnyChrom(rows, c, s, e) ==
    {row \in rows : assoc[row].pos >= s /\ assoc[row].pos <= e}

\* the rows of `rows` on chromosome c with position in [s, e]
Exclusion(rows, c, s, e) ==
    {row \in rows : assoc[row].chr = c /\ assoc[row].pos >= s /\ assoc[row].pos <= e}

\* (mutation of Significant: the threshold itself counts as significant)
SignificantOrEqual == {row \in DOMAIN assoc : assoc[row].p <= plot_p_lower}

\* assoc.loc[assoc[p_col] < plot_p_lower]
Significant == {row \in DOMAIN assoc : assoc[row].p < plot_p_lower}

\* the rows of the track, 0 downward
Rows == (0 - MaxDepth)..0
NoText == -1

LayoutIdle ==
    /\ annotations = <<>>
    /\ region_start = 0
    /\ region_end = 0
    /\ label_width = 0
    /\ lpc = "idle"
    /\ i = 1
    /\ j = 0
    /\ ann_start = 0
    /\ ann_end = 0
    /\ last_end = [r \in Rows |-> 0]
    /\ last_t_obj = [r \in Rows |-> NoText]
    /\ placed = <<>>

LdIdle ==
    /\ ld_result = <<>>
    /\ ld_values = <<>>
    /\ warnings = <<>>
    /\ r2 = <<>>
    /\ ldpc = "idle"

ChromPositions(c) == {assoc[row].pos : row \in {row2 \in DOMAIN assoc : assoc[row2].chr = c}}

\* ------------------------------------------------------------------ Init
\* the command line is parsed; the association file is not read yet.  The
\* padding may be negative or at the limit, which check_args refuses.
Init ==
    /\ assoc = <<>>
    /\ region_padding \in (-1..MaxPad) \cup {2 * PaddingLimit}
    /\ plot_p_lower \in 1..(MaxP + 1)
    /\ whole_dataset \in BOOLEAN
    /\ pc = "check_args"
    /\ best_hits = <<>>
    /\ chroms = <<>>
    /\ starts = <<>>
    /\ ends = <<>>
    /\ sub_data = {}
    /\ iters = 0
    /\ picks = <<>>
    /\ k = 1
    /\ ld_done = <<>>
    /\ ld_failed = {}
    /\ plotted = <<>>
    /\ LayoutIdle
    /\ LdIdle

\* ------------------------------------------------ check_args, read_assoc
\* the association file, the genetic map or the imputed sites file is not
\* a file: ProgramError, reported by parser.error.
CheckArgsNoFile ==
    /\ pc = "check_args"
    /\ pc' = "ProgramError"
    /\ UNCHANGED <<ldVars, layoutVars, argVars, hitVars, mainVars>>

\* the files exist, the padding is negative or too large: ProgramError.
CheckArgsPadding ==
    /\ pc = "check_args"
    /\ (region_padding < 0 \/ region_padding >= 2 * PaddingLimit)
    /\ pc' = "ProgramError"
    /\ UNCHANGED <<ldVars, layoutVars, argVars, hitVars, mainVars>>

\* check_args returns True.
CheckArgs ==
    /\ pc = "check_args"
    /\ ~(region_padding < 0 \/ region_padding >= 2 * PaddingLimit)
    /\ pc' = "read_assoc"
    /\ UNCHANGED <<ldVars, layoutVars, argVars, hitVars, mainVars>>

\* one of snp_col, chr_col, pos_col, p_col is not a column of the file.
ReadAssocFails ==
    /\ pc = "read_assoc"
    /\ pc' = "ProgramError"
    /\ UNCHANGED <<ldVars, layoutVars, argVars, hitVars, mainVars>>

\* read_assoc returns the frame, whatever rows the file holds.
ReadAssoc ==
    /\ pc = "read_assoc"
    /\ assoc' \in SeqsUpTo(Record, MaxRecords)
    /\ pc' = "get_best_hits"
    /\ UNCHANGED <<ldVars, layoutVars, region_padding, plot_p_lower, whole_dataset,
                   hitVars, mainVars>>

\* --------------------------------------------------------- get_best_hits
\* assoc[p_col].idxmin() on an empty frame raises ValueError, which main()
\* does not catch.
BestHitEmpty ==
    /\ pc = "get_best_hits"
    /\ assoc = <<>>
    /\ pc' = "ValueError"
    /\ UNCHANGED <<ldVars, layoutVars, argVars, hitVars, mainVars>>

\* whole-dataset mode: one locus spanning the chromosome of the best hit.
BestHitWhole ==
    /\ pc = "get_best_hits"
    /\ assoc # <<>>
    /\ whole_dataset
    /\ LET best_hit == IdxMin(DOMAIN assoc)
           chrom == assoc[best_hit].chr
       IN /\ best_hits' = <<best_hit>>
          /\ chroms' = <<chrom>>
          /\ starts' = <<Min(ChromPositions(chrom))>>
          /\ ends' = <<Max(ChromPositions(chrom))>>
          /\ picks' = <<DOMAIN assoc>>
    /\ pc' = "for"
    /\ UNCHANGED <<ldVars, layoutVars, argVars, sub_data, iters, mainVars>>

\* the best hit, its clamped window and the first exclusion.
BestHitFirst ==
    /\ pc = "get_best_hits"
    /\ assoc # <<>>
    /\ ~whole_dataset
    /\ LET best_hit == IdxMin(DOMAIN assoc)
           chrom == assoc[best_hit].chr
           start == Clamp(WindowStart(assoc[best_hit].pos))
           end == WindowEnd(assoc[best_hit].pos)
       IN /\ best_hits' = <<best_hit>>
          /\ chroms' = <<chrom>>
          /\ starts' = <<start>>
          /\ ends' = <<end>>
          /\ picks' = <<DOMAIN assoc>>
          /\ sub_data' = Significant \ Exclusion(Significant, chrom, start, end)
    /\ pc' = "while"
    /\ UNCHANGED <<ldVars, layoutVars, argVars, iters, mainVars>>

\* one iteration of `while len(sub_data) > 0`.
SecondaryHit ==
    /\ pc = "while"
    /\ sub_data # {}
    /\ LET best_hit == IdxMin(sub_data)
           chrom == assoc[best_hit].chr
           start == WindowStart(assoc[best_hit].pos)
           end == WindowEnd(assoc[best_hit].pos)
       IN /\ best_hits' = Append(best_hits, best_hit)
          /\ chroms' = Append(chroms, chrom)
          /\ starts' = Append(starts, start)
          /\ ends' = Append(ends, end)
          /\ picks' = Append(picks, sub_data)
          /\ sub_data' = sub_data \ Exclusion(sub_data, chrom, start, end)
    /\ iters' = iters + 1
    /\ UNCHANGED <<ldVars, layoutVars, argVars, pc, mainVars>>

\* the pool is empty: return best_hits, chroms, starts, ends.
ReturnHits ==
    /\ pc = "while"
    /\ sub_data = {}
    /\ pc' = "for"
    /\ UNCHANGED <<ldVars, layoutVars, argVars, hitVars, mainVars>>

\* ------------------------------------------------------------------ main
\* what utils.compute_ld can do for a locus: return the r2 values, or fail
\* because the genotypes cannot be read or the anchor is not in them.
LdOutcomes == {"ok", "ResolutionError"}

\* compute_ld for locus k returns: the LD table is saved.
ComputeLd ==
    /\ pc = "for"
    /\ k <= Len(best_hits)
    /\ "ok" \in LdOutcomes
    /\ ld_done' = Append(ld_done, k)
    /\ pc' = "plot"
    /\ UNCHANGED <<ldVars, layoutVars, argVars, hitVars, k, ld_failed, plotted>>

\* compute_ld for locus k raises (genotypes unreadable, anchor absent): the
\* for loop of main() has no handler, the exception leaves the loop.
ComputeLdFails ==
    /\ pc = "for"
    /\ k <= Len(best_hits)
    /\ "ResolutionError" \in LdOutcomes
    /\ ld_failed' = ld_failed \cup {k}
    /\ pc' = "error"
    /\ UNCHANGED <<ldVars, layoutVars, argVars, hitVars, k, ld_done, plotted>>

\* read_genetic_map, called for locus k once its LD table is saved, does
\* not find one of its three columns: ProgramError.  The same file is read
\* for every locus, so this happens at the first locus or never.
GeneticMapFails ==
    /\ pc = "plot"
    /\ plotted = <<>>
    /\ pc' = "ProgramError"
    /\ UNCHANGED <<ldVars, layoutVars, argVars, hitVars, mainVars>>

\* genetic map, imputed sites, annotations and plot_region for locus k.
PlotRegion ==
    /\ pc = "plot"
    /\ plotted' = Append(plotted, k)
    /\ k' = k + 1
    /\ pc' = "for"
    /\ UNCHANGED <<ldVars, layoutVars, argVars, hitVars, ld_done, ld_failed>>

\* zip(*best_hits) is exhausted.
MainDone ==
    /\ pc = "for"
    /\ k > Len(best_hits)
    /\ pc' = "done"
    /\ UNCHANGED <<ldVars, layoutVars, argVars, hitVars, mainVars>>

Next ==
    \/ CheckArgsNoFile
    \/ CheckArgsPadding
    \/ CheckArgs
    \/ ReadAssocFails
    \/ ReadAssoc
    \/ BestHitEmpty
    \/ BestHitWhole
    \/ BestHitFirst
    \/ SecondaryHit
    \/ ReturnHits
    \/ ComputeLd
    \/ ComputeLdFails
    \/ GeneticMapFails
    \/ PlotRegion
    \/ MainDone

Spec == Init /\ [][Next]_vars

\* ----------------------------------------------- plot_region: the layout
Feature == [start : {n * PosStep : n \in 0..MaxStart},
            len : Lengths]

FeatureEnd(f) == f.start + f.len

\* (start, end) ascending, the order of sort_values(by=["start", "end"])
Before(f, g) == f.start < g.start \/ (f.start = g.start /\ f.len <= g.len)

\* the annotation tables of at most MaxFeatures rows.  The table that
\* sort_values returns depends only on the rows present, not on their order,
\* so one order per table is enumerated: the descending one.
Tables ==
    {t \in SeqsUpTo(Feature, MaxFeatures) :
        \A m \in DOMAIN t : \A n \in DOMAIN t : m < n => Before(t[n], t[m])}

RECURSIVE Insert(_, _)
Insert(t, f) ==
    IF t = <<>> THEN <<f>>
    ELSE IF Before(t[1], f) THEN <<t[1]>> \o Insert(Tail(t), f)
    ELSE <<f>> \o t

\* annotations.sort_values(by=["start", "end"])
RECURSIVE SortValues(_)
SortValues(t) ==
    IF t = <<>> THEN <<>> ELSE Insert(SortValues(Tail(t)), t[1])

\* if ann_start < start: ann_start = start
ClipStart(s) == IF s < region_start THEN region_start ELSE s

\* if ann_end > end: ann_end = end
ClipEnd(e) == IF e > region_end THEN region_end ELSE e

\* doubled x of annotation_axe.text((ann_start + ann_end) / 2, ...)
TextX(s, e) == s + e

Abs(x) == IF x < 0 THEN 0 - x ELSE x

\* last_bb.overlaps(bbox) for two boxes of width label_width in the same
\* row, centred on c1 / 2 and c2 / 2: closed intervals that intersect.
Overlaps(c1, c2) == Abs(c1 - c2) <= 2 * label_width

\* (mutation of NextLastEnd: the gap is counted twice)
NextLastEndWide(e) == e + 2 * Gap

\* last_end[j] = ann_end + 3e-3
NextLastEnd(e) == e + Gap

LayoutInit ==
    /\ assoc = <<>>
    /\ region_padding = 0
    /\ plot_p_lower = 1
    /\ whole_dataset = FALSE
    /\ pc = "plot_region"
    /\ best_hits = <<>>
    /\ chroms = <<>>
    /\ starts = <<>>
    /\ ends = <<>>
    /\ sub_data = {}
    /\ iters = 0
    /\ picks = <<>>
    /\ k = 1
    /\ ld_done = <<>>
    /\ ld_failed = {}
    /\ plotted = <<>>
    /\ \E m \in 0..MaxMargin :
          /\ region_start = m * PosStep
          /\ region_end = MaxStart * PosStep + LongLen - m * PosStep
    /\ annotations \in Tables
    \* the annotation source returns the features that overlap the region
    /\ \A n \in DOMAIN annotations :
          /\ annotations[n].start <= region_end
          /\ FeatureEnd(annotations[n]) >= region_start
    /\ label_width \in {n * PosStep : n \in 0..MaxLabelW}
    /\ lpc = "sort"
    /\ LdIdle
    /\ i = 1
    /\ j = 0
    /\ ann_start = 0
    /\ ann_end = 0
    /\ last_end = [r \in Rows |-> 0]
    /\ last_t_obj = [r \in Rows |-> NoText]
    /\ placed = <<>>

\* annotations = annotations.sort_values(by=["start", "end"])
SortAnnotations ==
    /\ lpc = "sort"
    /\ annotations' = SortValues(annotations)
    /\ lpc' = "for"
    /\ UNCHANGED <<ldVars, pipeVars, region_start, region_end, label_width, i, j,
                   ann_start, ann_end, last_end, last_t_obj, placed>>

\* the head of the for loop: read and clip annotation i, j = 0.
NextAnnotation ==
    /\ lpc = "for"
    /\ i <= Len(annotations)
    /\ ann_start' = ClipStart(annotations[i].start)
    /\ ann_end' = ClipEnd(FeatureEnd(annotations[i]))
    /\ j' = 0
    /\ lpc' = "find_j"
    /\ UNCHANGED <<ldVars, pipeVars, annotations, region_start, region_end,
                   label_width, i, last_end, last_t_obj, placed>>

\* `while True`: row j is still occupied at ann_start, j -= 1.
FindRowDown ==
    /\ lpc = "find_j"
    /\ ~(last_end[j] < ann_start)
    /\ j > 0 - MaxDepth
    /\ j' = j - 1
    /\ UNCHANGED <<ldVars, pipeVars, annotations, region_start, region_end,
                   label_width, lpc, i, ann_start, ann_end, last_end,
                   last_t_obj, placed>>

\* `if last_end[j] < ann_start: break`, the text is created in row j and,
\* when the row already holds a label, the two boxes are fetched.
FindRowBreak ==
    /\ lpc = "find_j"
    /\ last_end[j] < ann_start
    /\ lpc' = IF last_t_obj[j] # NoText THEN "overlaps" ELSE "plot"
    /\ UNCHANGED <<ldVars, pipeVars, annotations, region_start, region_end,
                   label_width, i, j, ann_start, ann_end, last_end,
                   last_t_obj, placed>>

\* `while last_bb.overlaps(bbox)`: the boxes overlap, the text moves one row
\* down; the loop is left when that row holds no label yet.
OverlapDown ==
    /\ lpc = "overlaps"
    /\ Overlaps(last_t_obj[j], TextX(ann_start, ann_end))
    /\ j > 0 - MaxDepth
    /\ j' = j - 1
    /\ lpc' = IF last_t_obj[j - 1] = NoText THEN "plot" ELSE "overlaps"
    /\ UNCHANGED <<ldVars, pipeVars, annotations, region_start, region_end,
                   label_width, i, ann_start, ann_end, last_end, last_t_obj,
                   placed>>

\* the boxes do not overlap: the while loop ends.
OverlapEnd ==
    /\ lpc = "overlaps"
    /\ ~Overlaps(last_t_obj[j], TextX(ann_start, ann_end))
    /\ lpc' = "plot"
    /\ UNCHANGED <<ldVars, pipeVars, annotations, region_start, region_end,
                   label_width, i, j, ann_start, ann_end, last_end,
                   last_t_obj, placed>>

\* the line is drawn in row j; last_end[j] and last_t_obj[j] are saved.
PlotLine ==
    /\ lpc = "plot"
    /\ placed' = Append(placed, [start |-> ann_start, end |-> ann_end,
                                 text |-> TextX(ann_start, ann_end),
                                 row |-> j])
    /\ last_end' = [last_end EXCEPT ![j] = NextLastEnd(ann_end)]
    /\ last_t_obj' = [last_t_obj EXCEPT ![j] = TextX(ann_start, ann_end)]
    /\ i' = i + 1
    /\ lpc' = "for"
    /\ UNCHANGED <<ldVars, pipeVars, annotations, region_start, region_end,
                   label_width, j, ann_start, ann_end>>

\* range(annotations.shape[0]) is exhausted.
LayoutDone ==
    /\ lpc = "for"
    /\ i > Len(annotations)
    /\ lpc' = "done"
    /\ UNCHANGED <<ldVars, pipeVars, annotations, region_start, region_end,
                   label_width, i, j, ann_start, ann_end, last_end,
                   last_t_obj, placed>>

LayoutNext ==
    \/ SortAnnotations
    \/ NextAnnotation
    \/ FindRowDown
    \/ FindRowBreak
    \/ OverlapDown
    \/ OverlapEnd
    \/ PlotLine
    \/ LayoutDone

LayoutSpec == LayoutInit /\ [][LayoutNext]_vars

\* ------------------------------- compute_ld and the merge of plot_region
Markers == 1..NumMarkers
R2Values == 0..MaxR2
NaN == -1
Entry == [marker : Markers, r2 : R2Values \cup {NaN}]

\* the warning "duplicated found, keeping only the first occurrence"; the
\* other warnings are the marker ids
Header == 0

\* ld_values.index.has_duplicates
HasDuplicates(s) ==
    \E m \in DOMAIN s : \E n \in DOMAIN s : m # n /\ s[m].marker = s[n].marker

DuplicatedKeepLast(s, n) == \E m \in (n + 1)..Len(s) : s[m].marker = s[n].marker

\* ld_values.index.duplicated(keep="first"), at entry n
Duplicated(s, n) == \E m \in 1..(n - 1) : s[m].marker = s[n].marker

\* the index of ld_values.loc[dups], over the first n entries
RECURSIVE DupNames(_, _)
DupNames(s, n) ==
    IF n = 0 THEN <<>>
    ELSE IF Duplicated(s, n) THEN Append(DupNames(s, n - 1), s[n].marker)
         ELSE DupNames(s, n - 1)

\* ld_values.loc[~dups], over the first n entries
RECURSIVE DropDups(_, _)
DropDups(s, n) ==
    IF n = 0 THEN <<>>
    ELSE IF Duplicated(s, n) THEN DropDups(s, n - 1)
         ELSE Append(DropDups(s, n - 1), s[n])

\* data.assign(r2=ld_values): the series is aligned on the index of data; a
\* marker without entry gets NaN
Lookup(s, m) ==
    IF \E n \in DOMAIN s : s[n].marker = m
    THEN s[CHOOSE n \in DOMAIN s : s[n].marker = m].r2
    ELSE NaN

FillNone(v) == v

\* data.loc[is_null, "r2"] = 0
Fill(v) == IF v = NaN THEN 0 ELSE v

LdInit ==
    /\ assoc = <<>>
    /\ region_padding = 0
    /\ plot_p_lower = 1
    /\ whole_dataset = FALSE
    /\ pc = "compute_ld"
    /\ best_hits = <<>>
    /\ chroms = <<>>
    /\ starts = <<>>
    /\ ends = <<>>
    /\ sub_data = {}
    /\ iters = 0
    /\ picks = <<>>
    /\ k = 1
    /\ ld_done = <<>>
    /\ ld_failed = {}
    /\ plotted = <<>>
    /\ LayoutIdle
    /\ ld_result \in SeqsUpTo(Entry, MaxEntries)
    /\ ld_values = <<>>
    /\ warnings = <<>>
    /\ r2 = <<>>
    /\ ldpc = "compute_ld"

\* compute_ld, the index has duplicates: one warning for the fact, one per
\* duplicated entry, and the duplicated entries are dropped.
ComputeLdDedup ==
    /\ ldpc = "compute_ld"
    /\ HasDuplicates(ld_result)
    /\ warnings' = <<Header>> \o DupNames(ld_result, Len(ld_result))
    /\ ld_values' = DropDups(ld_result, Len(ld_result))
    /\ ldpc' = "assign"
    /\ UNCHANGED <<pipeVars, layoutVars, ld_result, r2>>

\* compute_ld, no duplicate: the series is returned as it is.
ComputeLdUnique ==
    /\ ldpc = "compute_ld"
    /\ ~HasDuplicates(ld_result)
    /\ ld_values' = ld_result
    /\ ldpc' = "assign"
    /\ UNCHANGED <<pipeVars, layoutVars, ld_result, warnings, r2>>

\* plot_region: data = data.assign(r2=ld_values)
AssignR2 ==
    /\ ldpc = "assign"
    /\ r2' = [m \in Markers |-> Lookup(ld_values, m)]
    /\ ldpc' = "isnull"
    /\ UNCHANGED <<pipeVars, layoutVars, ld_result, ld_values, warnings>>

\* plot_region: is_null.any() -- the NaN values are set to 0.
FillNull ==
    /\ ldpc = "isnull"
    /\ \E m \in Markers : r2[m] = NaN
    /\ r2' = [m \in Markers |-> Fill(r2[m])]
    /\ ldpc' = "done"
    /\ UNCHANGED <<pipeVars, layoutVars, ld_result, ld_values, warnings>>

\* plot_region: no NaN value after the merge.
NoNull ==
    /\ ldpc = "isnull"
    /\ \A m \in Markers : r2[m] # NaN
    /\ ldpc' = "done"
    /\ UNCHANGED <<pipeVars, layoutVars, ld_result, ld_values, warnings, r2>>

LdNext ==
    \/ ComputeLdDedup
    \/ ComputeLdUnique
    \/ AssignR2
    \/ FillNull
    \/ NoNull

LdSpec == LdInit /\ [][LdNext]_vars

\* ----------------------------------------------------------- properties
Returned == pc \in {"for", "plot", "done", "error"}
Loci == 1..Len(best_hits)
InWindow(row, a) ==
    /\ assoc[row].chr = chroms[a]
    /\ assoc[row].pos >= starts[a]
    /\ assoc[row].pos <= ends[a]

\* C1: in non whole-dataset mode no two returned loci of the same chromosome
\* have overlapping [window_start, window_end] ranges.
C1_NoOverlap ==
    (Returned /\ ~whole_dataset) =>
        \A a, b \in Loci :
            (a < b /\ chroms[a] = chroms[b]) =>
                (ends[a] < starts[b] \/ ends[b] < starts[a])

\* C2: every returned locus, the first and every secondary one, has
\* window_start >= 0 and window_end >= window_start.
C2_WindowBounds ==
    \A a \in Loci : starts[a] >= 0 /\ ends[a] >= starts[a]

\* C3: whatever the threshold, the first locus is anchored at a record whose
\* p-value is the minimum over all records.
C3_BestHitFirst ==
    Len(best_hits) >= 1 =>
        \A row \in DOMAIN assoc : assoc[best_hits[1]].p <= assoc[row].p

C3_Witness ==
    /\ Len(best_hits) >= 1
    /\ Significant = {}
    /\ \E row \in DOMAIN assoc : row < best_hits[1] /\ assoc[row].p > assoc[best_hits[1]].p

\* C4: the anchor of a locus never lies inside the window of a locus reported
\* earlier in the same call, and no record is the anchor of two loci.
C4_AnchorOutsideEarlierWindows ==
    \A a, b \in Loci :
        a < b => (~InWindow(best_hits[b], a) /\ best_hits[a] # best_hits[b])

C4_Witness ==
    /\ Returned
    /\ region_padding > 0
    /\ \E a, b \in Loci : a < b /\ chroms[a] = chroms[b]

C6_Terminates ==
    [][(pc = "while" /\ sub_data # {}) =>
          /\ sub_data' \subseteq sub_data \ {IdxMin(sub_data)}
          /\ iters' = iters + 1
          /\ iters' + Cardinality(sub_data') <= Len(assoc)]_vars

C6_Witness ==
    /\ pc = "for"
    /\ iters = Len(assoc) - 1
    /\ iters >= 1

\* C7: on an empty record set get_best_hits raises nothing and returns an
\* empty sequence of loci.
C7_EmptyInput ==
    (assoc = <<>> /\ pc \notin {"check_args", "read_assoc", "get_best_hits",
                                 "ProgramError"}) =>
        (Returned /\ best_hits = <<>>)

\* C10: when LD resolution fails for a locus only that locus is abandoned:
\* once main() has ended every other locus has been plotted.
C10_OtherLociProcessed ==
    pc \in {"done", "error"} =>
        \A a \in Loci : a \notin ld_failed =>
            \E n \in DOMAIN plotted : plotted[n] = a

\* two annotations drawn in the same row
SameRow(m, n) == m < n /\ placed[m].row = placed[n].row

LinesOverlap(m, n) ==
    placed[m].start <= placed[n].end /\ placed[n].start <= placed[m].end

\* C8: once the layout loop has placed all features, no two features of the
\* same row have overlapping drawn lines or overlapping label boxes.
C8_NoCollision ==
    lpc = "done" =>
        \A m, n \in DOMAIN placed :
            SameRow(m, n) =>
                /\ ~LinesOverlap(m, n)
                /\ ~Overlaps(placed[m].text, placed[n].text)

\* the clipped intervals of the sorted table
ClippedStart(n) == ClipStart(annotations[n].start)
ClippedEnd(n) == ClipEnd(FeatureEnd(annotations[n]))

GenomicDisjoint ==
    \A m, n \in DOMAIN annotations :
        m < n => (ClippedEnd(m) < ClippedStart(n) \/ ClippedEnd(n) < ClippedStart(m))

LabelsDisjoint ==
    \A m, n \in DOMAIN annotations :
        m < n => ~Overlaps(TextX(ClippedStart(m), ClippedEnd(m)),
                           TextX(ClippedStart(n), ClippedEnd(n)))

GapDisjoint ==
    \A m, n \in DOMAIN annotations :
        m < n => ClippedStart(n) > ClippedEnd(m) + Gap

C15_SignificantCovered ==
    (Returned /\ ~whole_dataset) =>
        \A row \in Significant : \E a \in Loci : InWindow(row, a)

C15_Witness ==
    /\ Returned
    /\ ~whole_dataset
    /\ \E row \in Significant : \A a \in Loci : best_hits[a] # row

\* C14: both row searches end for every feature and the k-th feature placed
\* gets a row in [-(k-1), 0]: a search never goes below the rows in use plus
\* one, so the candidate row of feature i is never under -(i-1).
C14_RowRange ==
    /\ lpc \in {"find_j", "overlaps", "plot"} => (j <= 0 /\ j >= 0 - (i - 1))
    /\ \A n \in DOMAIN placed :
          placed[n].row <= 0 /\ placed[n].row >= 0 - (n - 1)

\* C11: a configuration error (missing file, padding out of range, missing
\* column of the association file or of the genetic map) aborts the run
\* before any locus is processed: no LD table was computed or saved and no
\* region was plotted.
C11_ConfigErrorBeforeLoci ==
    pc = "ProgramError" => (ld_done = <<>> /\ plotted = <<>>)

\* the entries of marker m in a series, and its first entry
EntriesOf(s, m) == {n \in DOMAIN s : s[n].marker = m}
FirstOf(s, m) == CHOOSE n \in EntriesOf(s, m) : \A n2 \in EntriesOf(s, m) : n <= n2
WarningsOf(m) == {n \in DOMAIN warnings : warnings[n] = m}

\* the entries of a series whose marker the engine returned once
RECURSIVE OnlyUnique(_, _)
OnlyUnique(s, n) ==
    IF n = 0 THEN <<>>
    ELSE IF Cardinality(EntriesOf(ld_result, s[n].marker)) = 1
         THEN Append(OnlyUnique(s, n - 1), s[n])
         ELSE OnlyUnique(s, n - 1)

\* C13: compute_ld returns exactly one entry per marker the engine returned,
\* the entry being the first the engine returned for it; it logs one warning
\* naming the marker per discarded entry and none for a marker returned
\* once; the entries of the markers returned once are the same, in the same
\* order.
C13_FirstOccurrenceKept ==
    ldpc \in {"assign", "isnull", "done"} =>
        /\ \A m \in Markers :
              Cardinality(EntriesOf(ld_values, m)) =
                  IF EntriesOf(ld_result, m) = {} THEN 0 ELSE 1
        /\ \A n \in DOMAIN ld_values :
              ld_values[n] = ld_result[FirstOf(ld_result, ld_values[n].marker)]
        /\ \A m \in Markers :
              EntriesOf(ld_result, m) # {} =>
                  Cardinality(WarningsOf(m)) =
                      Cardinality(EntriesOf(ld_result, m)) - 1
        /\ OnlyUnique(ld_values, Len(ld_values)) =
              OnlyUnique(ld_result, Len(ld_result))

\* the engine returned a marker twice with different values, and another
\* marker once, and compute_ld has returned
C13_Witness ==
    /\ ldpc = "assign"
    /\ \E a \in DOMAIN ld_result : \E b \in DOMAIN ld_result :
          /\ a < b
          /\ ld_result[a].marker = ld_result[b].marker
          /\ ld_result[a].r2 # ld_result[b].r2
    /\ \E m \in Markers : Cardinality(EntriesOf(ld_result, m)) = 1

\* C12: once plot_region has merged the LD values, no marker of the region
\* has a null r2; a marker with a non-null value in the series compute_ld
\* returned has that value, a marker absent from it or null in it has 0.
C12_MissingIsZero ==
    ldpc = "done" =>
        \A m \in Markers :
            /\ r2[m] # NaN
            /\ \A n \in EntriesOf(ld_values, m) :
                  ld_values[n].r2 # NaN => r2[m] = ld_values[n].r2
            /\ (\A n \in EntriesOf(ld_values, m) : ld_values[n].r2 = NaN) =>
                  r2[m] = 0

\* one marker is absent from the LD values, one is null in them and one has
\* a positive value, or the first two with NumMarkers = 2
C12_Witness ==
    /\ ldpc = "done"
    /\ \E m \in Markers : \A n \in EntriesOf(ld_values, m) : ld_values[n].r2 = NaN
    /\ \E m \in Markers : \E n \in EntriesOf(ld_values, m) : ld_values[n].r2 > 0

====
